---- MODULE Spec2Model ----
(***************************************************************************)
(* Token lifecycle of the Rise Gardens API client                          *)
(* (custom_components/rise_garden/api.py): password-grant login,           *)
(* refresh-grant renewal with refresh-token rotation, the proactive        *)
(* expiry check and the reactive 401 retry of _api_request.                *)
(*                                                                         *)
(* Python values: None is the string "None" (what an f-string prints for   *)
(* it); no token drawn below is that literal.  A JSON body and the headers *)
(* dict are functions from the keys they hold, so a missing key is a key   *)
(* outside DOMAIN, as for dict.get.                                        *)
(*                                                                         *)
(* Around the client: its data facade (api.py, get_gardens_list ...        *)
(* set_pump), the setup and the polling cycle of the integration           *)
(* (__init__.py), and the projections of the light and sensor entities     *)
(* (light.py, sensor.py), whose * 2.55 and / 2.55 are computed in binary64 *)
(* as Python computes them.                                                *)
(***************************************************************************)
EXTENDS Integers, Sequences, FiniteSets, TLC

VARIABLES
    access_token,        \* self.access_token
    refresh_token,       \* self.refresh_token
    token_expires_at,    \* self.token_expires_at
    on_token_refresh,    \* self._on_token_refresh
    headers,             \* self.headers, its "authorization" entry only
    entry_refresh_token, \* entry.data[CONF_REFRESH_TOKEN] of the config entry
    now,                 \* time.time()
    pc,                  \* per caller: the statement it is at
    loc,                 \* per caller: the locals of its frames
    h,                   \* per caller: history of the logical call in progress
    authed,              \* history: authenticate()/refresh has returned True
    lastRotation,        \* history: refresh token of the last detected rotation
    scenario,            \* which inputs and answers this run is driven with
    setup,               \* where async_setup_entry of the config entry stands
    job,                 \* per caller: the frame of its coroutine
    coordinator_data,    \* coordinator.data, the last snapshot
    view                 \* what an entity last computed from its inputs

vars == <<access_token, refresh_token, token_expires_at, on_token_refresh,
          headers, entry_refresh_token, now, pc, loc, h, authed, lastRotation,
          scenario, setup, job, coordinator_data, view>>

\* the state of the integration around the client
host == <<scenario, setup, job, coordinator_data, view>>

client == <<access_token, refresh_token, token_expires_at, headers>>

-----------------------------------------------------------------------------
(* Bounds and program constants *)

\* the clock starts here and is advanced up to MaxNow
StartTime == 1000
MaxNow == 1002

\* api.py:147, the safety margin of _ensure_valid_token
EXPIRY_MARGIN == 300
\* api.py:128, expires_in when the token response has none
DEFAULT_EXPIRES_IN == 36000
\* api.py:76, 112, 184: the status of success; api.py:166: unauthorized
HTTP_OK == 200
HTTP_UNAUTHORIZED == 401
\* statuses the garden API answers with; 500 stands for every other status
ApiStatuses == {HTTP_OK, HTTP_UNAUTHORIZED, 500}

None == "None"
NoCallback == None
PersistCallback == "on_token_refresh"

Threads == {"poll", "cmd"}
\* the callers that run in the sequential specification
Callers == {"poll"}

AccessVals == {"A1", "A2"}
RefreshVals == {"R1", "R2"}
ExpiresVals == {100, 301}

EmptyMap == [k \in {} |-> ""]

\* every JSON object over the three keys of a token response
TokenBodies ==
    { [k \in ks |-> IF k = "access_token" THEN a
                    ELSE IF k = "refresh_token" THEN r ELSE e] :
        ks \in SUBSET {"access_token", "refresh_token", "expires_in"},
        a \in AccessVals, r \in RefreshVals, e \in ExpiresVals }

\* what a POST to the token endpoint can come to: 200 with a JSON object,
\* 200 with a body json() rejects, another status, or requests raising
TokenOutcomes ==
    { [kind |-> "ok", body |-> b] : b \in TokenBodies }
    \cup { [kind |-> k, body |-> EmptyMap] : k \in {"malformed", "non200", "error"} }

\* the answers of a token endpoint that always sends an access token, and
\* a refresh token and a short lifetime or neither
PlainTokenOutcomes ==
    { [kind |-> "ok", body |-> b] :
        b \in { [access_token |-> "A1"],
                [access_token |-> "A1", refresh_token |-> "R1", expires_in |-> 100],
                [access_token |-> "A1", refresh_token |-> "R2", expires_in |-> 100] } }
    \cup { [kind |-> k, body |-> EmptyMap] : k \in {"non200", "error"} }

\* the answers of a token endpoint that is up and rotates the refresh token
RotatingTokenOutcomes ==
    { [kind |-> "ok", body |-> b] :
        b \in { [access_token |-> "A1", refresh_token |-> "R1", expires_in |-> 100],
                [access_token |-> "A1", refresh_token |-> "R2", expires_in |-> 100] } }

\* what a call of the garden API can come to: a response, or requests raising
ApiOutcomes ==
    { [ok |-> TRUE, status |-> s] : s \in ApiStatuses }
    \cup { [ok |-> FALSE, status |-> 0] }

\* the answers of a garden API that is reached: 200 or 401
ReachedApiOutcomes ==
    { [ok |-> TRUE, status |-> s] : s \in {HTTP_OK, HTTP_UNAUTHORIZED} }

-----------------------------------------------------------------------------
(* Python helpers *)

\* dict.get(key, default)
Get(d, k, default) == IF k \in DOMAIN d THEN d[k] ELSE default

\* truth value of a token: None and "" are false
Truthy(x) == x \notin {None, ""}

\* f"Bearer {self.access_token}"
Bearer(tok) == "Bearer " \o tok

\* self.headers["authorization"] = value
SetAuthorization(value) == [authorization |-> value]

-----------------------------------------------------------------------------
(* Return values, locals and history *)

Pending == [kind |-> "pending", ok |-> FALSE, status |-> 0, n |-> 0]
BoolRet(b) == [kind |-> "bool", ok |-> b, status |-> 0, n |-> 0]
NullRet == [kind |-> "null", ok |-> FALSE, status |-> 0, n |-> 0]
\* the response of the n-th HTTP call of the logical call
RespRet(s, n) == [kind |-> "resp", ok |-> FALSE, status |-> s, n |-> n]
\* the operation did not return: an exception left it
Raised == [kind |-> "raised", ok |-> FALSE, status |-> 0, n |-> 0]

\* the frame of _update_tokens: data and the locals of lines 127-132;
\* history: the refresh token held on entry, whether line 131 saw a
\* rotation, the calls of the callback and its argument
U0 == [data |-> EmptyMap, new_refresh_token |-> None, expires_in |-> 0,
       old_token |-> None, prev |-> None, rotated |-> FALSE, ncb |-> 0,
       cbarg |-> None]

\* op: the operation called; retry: retry_on_auth_fail of the running
\* _api_request; rfrom, afrom, ufrom: the call sites refresh_access_token,
\* authenticate and _update_tokens return to; payload: the refresh token of
\* the refresh-grant payload; u: the frame of _update_tokens; ret: the
\* operation's return value
L0 == [op |-> "none", retry |-> TRUE, rfrom |-> "none", afrom |-> "none",
       ufrom |-> "none", payload |-> None, u |-> U0, ret |-> Pending]

\* history of one refresh_access_token() call: who called it, whether a
\* refresh token was held, the refresh-grant posts and their outcome, the
\* authenticate() calls and the last one's result, and its own result
NoRefresh == [from |-> "none", held |-> FALSE, grants |-> 0, gout |-> "none",
              auths |-> 0, aret |-> "none", ret |-> "none"]
\* history of one exchange with the token endpoint
\* (grant type, what came back, and what the rotation callback did)
NoExchange == [grant |-> "none", kind |-> "none", cb |-> "none"]

\* history of one logical call: the API's answers, the headers of the last
\* HTTP call, the refresh_access_token() calls by origin, the current or
\* last refresh, the last token exchange, the access token of the
\* response the last successful refresh came from, and how far the last
\* _update_tokens of the call got ("none": the call has not entered it,
\* "begun": line 126 has run, "finished": line 142 has run)
H0 == [http |-> <<>>, hdr |-> EmptyMap, ensure |-> 0, reactive |-> 0,
       cur |-> NoRefresh, tok |-> NoExchange, granted |-> None,
       upd |-> "none"]

BoolStr(b) == IF b THEN "true" ELSE "false"

\* Python None where a JSON value or a dict is expected
JsonNull == [json_null |-> TRUE]

\* what a facade operation gave its caller: nothing yet, a value (the
\* parsed body of a getter in `value`, the boolean of a command in `ok`),
\* or an exception
Unfetched == [kind |-> "unfetched", value |-> JsonNull, ok |-> FALSE]
Returned(v, b) == [kind |-> "value", value |-> v, ok |-> b]
Thrown == [kind |-> "raised", value |-> JsonNull, ok |-> FALSE]

\* the frame of a coroutine of the integration: async_setup_entry,
\* async_update_data, async_turn_on, async_turn_off, or a direct call of a
\* facade operation.  at: the await it stands at; garden_id: self._garden_id
\* of the light entity; first: the update is
\* async_config_entry_first_refresh; stored: stored_refresh_token; op: the
\* facade operation awaited; sent: the (garden_id, level) pairs passed to
\* set_light_level; gardens_list, device_data, result: what the facade
\* gave; outcome, snapshot: how async_update_data ended; requested: the
\* calls of coordinator.async_request_refresh; response, parse: history,
\* what _api_request returned to the facade operation and what
\* response.json() came to
J0 == [kind |-> "none", at |-> "none", first |-> FALSE, stored |-> None,
       garden_id |-> 0, op |-> "none", sent |-> <<>>, gardens_list |-> Unfetched,
       device_data |-> Unfetched, result |-> Unfetched, outcome |-> "none",
       snapshot |-> JsonNull, requested |-> 0, response |-> Pending,
       parse |-> [ok |-> FALSE, body |-> JsonNull]]

\* an entity that has computed nothing
NoView == [kind |-> "none"]

\* a client as RiseGardensAPI.__init__ leaves it, before any call, with
\* no coroutine of the integration running
Fresh ==
    /\ access_token = None
    /\ refresh_token = None
    /\ token_expires_at = 0
    /\ on_token_refresh = NoCallback
    /\ headers = EmptyMap
    /\ now = StartTime
    /\ pc = [t \in Threads |-> "idle"]
    /\ loc = [t \in Threads |-> L0]
    /\ h = [t \in Threads |-> H0]
    /\ authed = FALSE
    /\ lastRotation = None
    /\ setup = "none"
    /\ job = [t \in Threads |-> J0]

Init ==
    /\ access_token = None
    /\ refresh_token = None
    /\ token_expires_at = 0
    /\ on_token_refresh = NoCallback
    /\ headers = EmptyMap
    /\ entry_refresh_token = None
    /\ now = StartTime
    /\ pc = [t \in Threads |-> "idle"]
    /\ loc = [t \in Threads |-> L0]
    /\ h = [t \in Threads |-> H0]
    /\ authed = FALSE
    /\ lastRotation = None
    /\ scenario = "client"
    /\ setup = "none"
    /\ job = [t \in Threads |-> J0]
    /\ coordinator_data = JsonNull
    /\ view = NoView

-----------------------------------------------------------------------------
(* Control flow: where a call goes and where a return value goes.  Each    *)
(* operator gives the caller's next statement, locals and history.         *)

Goto(p, l, g) == [pc |-> p, loc |-> l, h |-> g]

Apply(t, r) ==
    /\ pc' = [pc EXCEPT ![t] = r.pc]
    /\ loc' = [loc EXCEPT ![t] = r.loc]
    /\ h' = [h EXCEPT ![t] = r.h]

\* mutant of Caught: only _api_request has a try block
Caught_RequestOnly(site) == site = "request"

\* the functions whose body, from the HTTP call on, is inside
\* try ... except Exception: authenticate (lines 73-86),
\* refresh_access_token (lines 109-122), _api_request (lines 162-178)
Caught(site) == site \in {"authenticate", "refresh", "request"}

\* an exception arises in the try block of `site`: the except clause takes
\* over at `handled`; one that no except clause takes leaves the operation
Except(site, l, g, handled) ==
    IF Caught(site) THEN handled
    ELSE Goto("done", [l EXCEPT !.ret = Raised], g)

\* mutant of AfterRefresh: the retry keeps retry_on_auth_fail=True
AfterRefresh_RetryAgain(l, g, v) ==
    LET g2 == [g EXCEPT !.cur.ret = BoolStr(v),
                        !.granted = IF v THEN Get(l.u.data, "access_token", None)
                                    ELSE @]
        l2 == [l EXCEPT !.rfrom = "none", !.payload = None, !.u = U0]
    IN  CASE l.rfrom = "top" -> Goto("done", [l2 EXCEPT !.ret = BoolRet(v)], g2)
          [] l.rfrom = "ensure" -> Goto("http", l2, g2)
          [] l.rfrom = "reactive" ->
                IF v THEN Goto("ensure", l2, g2)
                ELSE Goto("done", [l2 EXCEPT !.ret = NullRet], g2)

\* refresh_access_token() returns v: to the caller of the operation, to
\* _api_request line 160 through _ensure_valid_token (the value is dropped),
\* or to the 401 branch, lines 168-173, which retries with
\* retry_on_auth_fail=False or returns None
AfterRefresh(l, g, v) ==
    LET g2 == [g EXCEPT !.cur.ret = BoolStr(v),
                        !.granted = IF v THEN Get(l.u.data, "access_token", None)
                                    ELSE @]
        l2 == [l EXCEPT !.rfrom = "none", !.payload = None, !.u = U0]
    IN  CASE l.rfrom = "top" -> Goto("done", [l2 EXCEPT !.ret = BoolRet(v)], g2)
          [] l.rfrom = "ensure" -> Goto("http", l2, g2)
          [] l.rfrom = "reactive" ->
                IF v THEN Goto("ensure", [l2 EXCEPT !.retry = FALSE], g2)
                ELSE Goto("done", [l2 EXCEPT !.ret = NullRet], g2)

\* authenticate() returns v: to the caller of the operation, or to
\* refresh_access_token lines 92, 119, 122, which returns it
AfterAuthenticate(l, g, v) ==
    IF l.afrom = "top"
    THEN Goto("done", [l EXCEPT !.afrom = "none", !.u = U0, !.ret = BoolRet(v)], g)
    ELSE AfterRefresh([l EXCEPT !.afrom = "none"],
                      [g EXCEPT !.cur.aret = BoolStr(v)], v)

\* a call of authenticate() from the call site `from`
CallAuthenticate(l, g, from) ==
    Goto("auth_post", [l EXCEPT !.afrom = from],
         IF from = "top" THEN g ELSE [g EXCEPT !.cur.auths = @ + 1])

\* a call of refresh_access_token() from the call site `from`
CallRefresh(l, g, from) ==
    Goto("refresh_check", [l EXCEPT !.rfrom = from],
         [g EXCEPT !.cur = [NoRefresh EXCEPT !.from = from,
                                             !.held = Truthy(refresh_token)],
                   !.ensure = IF from = "ensure" THEN @ + 1 ELSE @,
                   !.reactive = IF from = "reactive" THEN @ + 1 ELSE @])

\* _update_tokens returns (line 142): its caller logs and returns True
AfterUpdateTokens(l, g) ==
    LET l2 == [l EXCEPT !.ufrom = "none"]
    IN  IF l.ufrom = "auth" THEN AfterAuthenticate(l2, g, TRUE)
        ELSE AfterRefresh(l2, g, TRUE)

\* an exception inside _update_tokens reaches the except clause of its
\* caller: authenticate returns False (lines 84-86), refresh_access_token
\* falls back to authenticate() (lines 120-122)
RaiseInUpdateTokens(l, g) ==
    LET l2 == [l EXCEPT !.ufrom = "none", !.u = U0]
    IN  IF l.ufrom = "auth"
        THEN Except("authenticate", l2, g, AfterAuthenticate(l2, g, FALSE))
        ELSE Except("refresh", l2, g, CallAuthenticate(l2, g, "fallback"))

-----------------------------------------------------------------------------
(* The operations *)

\* the clock advances, also while a call is in progress
Tick ==
    /\ now < MaxNow
    /\ now' = now + 1
    /\ UNCHANGED <<client, on_token_refresh, entry_refresh_token, pc, loc, h,
                   authed, lastRotation>>
    /\ UNCHANGED host

\* set_token_refresh_callback(on_token_refresh), as async_setup_entry calls it
SetTokenRefreshCallback(t) ==
    /\ pc[t] = "idle"
    /\ on_token_refresh = NoCallback
    /\ on_token_refresh' = PersistCallback
    /\ UNCHANGED <<client, entry_refresh_token, now, pc, loc, h, authed,
                   lastRotation>>
    /\ UNCHANGED host

\* set_tokens(access_token, refresh_token, expires_in=36000)
SetTokens(t) ==
    /\ pc[t] = "idle"
    /\ \E a \in AccessVals, r \in RefreshVals,
          e \in ExpiresVals \cup {DEFAULT_EXPIRES_IN} :
          /\ access_token' = a
          /\ refresh_token' = r
          /\ token_expires_at' = now + e
          /\ headers' = SetAuthorization(Bearer(a))
    /\ lastRotation' = None
    /\ UNCHANGED <<on_token_refresh, entry_refresh_token, now, pc, loc, h,
                   authed>>
    /\ UNCHANGED host

\* a caller starts authenticate()
StartAuthenticate(t) ==
    /\ pc[t] = "idle"
    /\ Apply(t, CallAuthenticate([L0 EXCEPT !.op = "authenticate"], H0, "top"))
    /\ UNCHANGED <<client, on_token_refresh, entry_refresh_token, now, authed,
                   lastRotation>>
    /\ UNCHANGED host

\* a caller starts refresh_access_token()
StartRefresh(t) ==
    /\ pc[t] = "idle"
    /\ Apply(t, CallRefresh([L0 EXCEPT !.op = "refresh"], H0, "top"))
    /\ UNCHANGED <<client, on_token_refresh, entry_refresh_token, now, authed,
                   lastRotation>>
    /\ UNCHANGED host

\* a caller starts _api_request(method, url), retry_on_auth_fail=True
StartRequest(t) ==
    /\ pc[t] = "idle"
    /\ Apply(t, Goto("ensure", [L0 EXCEPT !.op = "request"], H0))
    /\ UNCHANGED <<client, on_token_refresh, entry_refresh_token, now, authed,
                   lastRotation>>
    /\ UNCHANGED host

\* what the token endpoint of this run answers a POST with
TokenAnswers ==
    CASE scenario = "client" -> TokenOutcomes
      [] scenario = "race" -> RotatingTokenOutcomes
      [] OTHER -> PlainTokenOutcomes

\* what the garden API of this run answers a call with
ApiAnswers == IF scenario = "race" THEN ReachedApiOutcomes ELSE ApiOutcomes

\* a 200 of the token endpoint that issues an access token
IssuingOutcomes ==
    { out \in TokenOutcomes : out.kind = "ok" /\ "access_token" \in DOMAIN out.body }

\* the identity provider and the API have recovered: the password grant
\* is accepted and issues a token, a refresh grant is refused or issues a
\* token, and the API is reached and answers 200 to the token just
\* installed (200 or 401 to any other)
Recovered == scenario = "recovered"

\* the answers to the password-grant POST of authenticate (line 74)
PasswordGrantAnswers == IF Recovered THEN IssuingOutcomes ELSE TokenAnswers

\* the answers to the refresh-grant POST of refresh_access_token (line 110)
RefreshGrantAnswers ==
    IF Recovered
    THEN IssuingOutcomes \cup { out \in TokenOutcomes : out.kind # "ok" }
    ELSE TokenAnswers

\* the answers to the HTTP call of _api_request (line 163), which caller t
\* sends with self.headers
ApiAnswersTo(t) ==
    IF Recovered
    THEN IF h[t].upd = "finished" /\ headers = SetAuthorization(Bearer(access_token))
         THEN { [ok |-> TRUE, status |-> HTTP_OK] }
         ELSE ReachedApiOutcomes
    ELSE ApiAnswers

\* mutant of TokenExpiringSoon: the 5 minute margin is left out
TokenExpiringSoon_NoMargin == now > token_expires_at

\* _ensure_valid_token, line 147: the token expires in less than 5 minutes
TokenExpiringSoon == now > token_expires_at - EXPIRY_MARGIN

\* mutant of NextRefreshToken: the field is not assigned before the callback
NextRefreshToken_Unassigned(new) == refresh_token

\* mutant of NextRefreshToken: a response without one drops the token held
NextRefreshToken_Forget(new) == new

\* _update_tokens, lines 131-139: the refresh token held after a response
\* that carries `new`
NextRefreshToken(new) == IF Truthy(new) THEN new ELSE refresh_token

\* mutant of IsRotation: every response with a refresh token is a rotation
IsRotation_AnyToken(new) == Truthy(new)

\* _update_tokens, line 131: the response rotates the refresh token
IsRotation(new) == Truthy(new) /\ new # refresh_token

\* mutant of ExpiresIn: the default is one hour
ExpiresIn_ShortDefault(data) == Get(data, "expires_in", 3600)

\* _update_tokens, line 128
ExpiresIn(data) == Get(data, "expires_in", DEFAULT_EXPIRES_IN)

\* mutant of InstalledHeaders: the header is left as it was
InstalledHeaders_Stale == headers

\* _update_tokens, line 142: the authorization header after an install
InstalledHeaders == SetAuthorization(Bearer(access_token))

\* _update_tokens(data), lines 126-136, called from `from`: take the fields
\* of the response, assign access_token, and on a rotation assign
\* refresh_token; the callback, if one is registered, comes next
UpdateTokens1(t, g, from, data) ==
    LET new == Get(data, "refresh_token", None)
        rot == IsRotation(new)
        u2 == [data |-> data, new_refresh_token |-> new,
               expires_in |-> ExpiresIn(data),
               old_token |-> IF rot THEN refresh_token ELSE None,
               prev |-> refresh_token, rotated |-> rot, ncb |-> 0,
               cbarg |-> None]
    IN  /\ access_token' = Get(data, "access_token", None)
        /\ refresh_token' = NextRefreshToken(new)
        /\ lastRotation' = IF rot THEN new ELSE lastRotation
        /\ Apply(t, Goto(IF rot /\ on_token_refresh # NoCallback
                         THEN "upd_cb" ELSE "upd_3",
                         [loc[t] EXCEPT !.ufrom = from, !.u = u2],
                         [g EXCEPT !.upd = "begun"]))
        /\ UNCHANGED <<token_expires_at, headers>>

\* mutant of AccessTokenAfterFailure: a failed login drops the access token
AccessTokenAfterFailure_Cleared == None

\* authenticate, lines 81-86: the failure branches assign nothing
AccessTokenAfterFailure == access_token

\* authenticate, lines 73-86: the password-grant POST; a 200 with a JSON
\* object goes on into _update_tokens, anything else returns False
AuthPost(t) ==
    /\ pc[t] = "auth_post"
    /\ \E out \in PasswordGrantAnswers :
          LET g == [h[t] EXCEPT !.tok = [grant |-> "password", kind |-> out.kind,
                                         cb |-> "none"]]
          IN  IF out.kind = "ok"
              THEN UpdateTokens1(t, g, "auth", out.body)
              ELSE /\ Apply(t, IF out.kind = "non200"
                                THEN AfterAuthenticate(loc[t], g, FALSE)
                                ELSE Except("authenticate", loc[t], g,
                                            AfterAuthenticate(loc[t], g, FALSE)))
                   /\ access_token' = AccessTokenAfterFailure
                   /\ UNCHANGED <<refresh_token, token_expires_at, headers,
                                  lastRotation>>
    /\ UNCHANGED <<on_token_refresh, entry_refresh_token, now, authed>>
    /\ UNCHANGED host

\* mutant of NoRefreshToken: the refresh grant is sent without a token
NoRefreshToken_Never == FALSE

\* refresh_access_token, line 90: no refresh token is held
NoRefreshToken == ~Truthy(refresh_token)

\* refresh_access_token, line 99: the refresh token of the grant's payload
GrantPayload == refresh_token

\* refresh_access_token, lines 90-100: without a refresh token re-authenticate,
\* else build the refresh-grant payload from the token held
RefreshCheck(t) ==
    /\ pc[t] = "refresh_check"
    /\ Apply(t, IF NoRefreshToken
                THEN CallAuthenticate(loc[t], h[t], "norefresh")
                ELSE Goto("refresh_post",
                          [loc[t] EXCEPT !.payload = GrantPayload], h[t]))
    /\ UNCHANGED <<client, on_token_refresh, entry_refresh_token, now, authed,
                   lastRotation>>
    /\ UNCHANGED host

\* refresh_access_token, lines 109-122: the refresh-grant POST; a 200 with
\* a JSON object goes on into _update_tokens, anything else falls back to
\* authenticate()
RefreshPost(t) ==
    /\ pc[t] = "refresh_post"
    /\ \E out \in RefreshGrantAnswers :
          LET g == [h[t] EXCEPT !.tok = [grant |-> "refresh", kind |-> out.kind,
                                         cb |-> "none"],
                                !.cur.grants = @ + 1,
                                !.cur.gout = out.kind]
          IN  IF out.kind = "ok"
              THEN UpdateTokens1(t, g, "refresh", out.body)
              ELSE /\ Apply(t, IF out.kind = "non200"
                                THEN CallAuthenticate(loc[t], g, "fallback")
                                ELSE Except("refresh", loc[t], g,
                                            CallAuthenticate(loc[t], g, "fallback")))
                   /\ UNCHANGED <<client, lastRotation>>
    /\ UNCHANGED <<on_token_refresh, entry_refresh_token, now, authed>>
    /\ UNCHANGED host

\* _update_tokens, line 137: the rotation callback, which is on_token_refresh
\* of async_setup_entry (__init__.py:30-34): it stores the new refresh token
\* in the config entry, or raises
RotationCallback(t) ==
    /\ pc[t] = "upd_cb"
    /\ LET new == loc[t].u.new_refresh_token
       IN  \/ /\ entry_refresh_token' = new
              /\ Apply(t, Goto("upd_3",
                               [loc[t] EXCEPT !.u.ncb = @ + 1, !.u.cbarg = new],
                               [h[t] EXCEPT !.tok.cb = "returned"]))
           \/ /\ entry_refresh_token' = entry_refresh_token
              /\ Apply(t, RaiseInUpdateTokens(loc[t],
                               [h[t] EXCEPT !.tok.cb = "raised"]))
    /\ UNCHANGED <<client, on_token_refresh, now, authed, lastRotation>>
    /\ UNCHANGED host

\* _update_tokens, lines 141-142, and the return True of its caller
UpdateTokens3(t) ==
    /\ pc[t] = "upd_3"
    /\ token_expires_at' = now + loc[t].u.expires_in
    /\ headers' = InstalledHeaders
    /\ authed' = TRUE
    /\ Apply(t, AfterUpdateTokens(loc[t], [h[t] EXCEPT !.upd = "finished"]))
    /\ UNCHANGED <<access_token, refresh_token, on_token_refresh,
                   entry_refresh_token, now, lastRotation>>
    /\ UNCHANGED host

\* _api_request, line 160, and _ensure_valid_token, lines 147-150
EnsureValidToken(t) ==
    /\ pc[t] = "ensure"
    /\ Apply(t, IF TokenExpiringSoon
                THEN CallRefresh(loc[t], h[t], "ensure")
                ELSE Goto("http", loc[t], h[t]))
    /\ UNCHANGED <<client, on_token_refresh, entry_refresh_token, now, authed,
                   lastRotation>>
    /\ UNCHANGED host

\* mutant of RetryOnAuthFail: every 401 is handled by a refresh and a retry
RetryOnAuthFail_Always(l, status) == status = HTTP_UNAUTHORIZED

\* _api_request, line 166: the 401 is handled by a refresh and a retry
RetryOnAuthFail(l, status) == status = HTTP_UNAUTHORIZED /\ l.retry

\* _api_request, lines 162-178: the HTTP call with the current headers
HttpRequest(t) ==
    /\ pc[t] = "http"
    /\ \E out \in ApiAnswersTo(t) :
          LET g == [h[t] EXCEPT !.http = Append(@, out), !.hdr = headers]
          IN  Apply(t, IF ~out.ok
                       THEN Except("request", loc[t], g,
                                   Goto("done", [loc[t] EXCEPT !.ret = NullRet], g))
                       ELSE IF RetryOnAuthFail(loc[t], out.status)
                       THEN CallRefresh(loc[t], g, "reactive")
                       ELSE Goto("done",
                                 [loc[t] EXCEPT !.ret = RespRet(out.status, Len(g.http))],
                                 g))
    /\ UNCHANGED <<client, on_token_refresh, entry_refresh_token, now, authed,
                   lastRotation>>
    /\ UNCHANGED host

\* the caller takes the return value; the next call starts from scratch
Return(t) ==
    /\ pc[t] = "done"
    /\ Apply(t, Goto("idle", L0, H0))
    /\ UNCHANGED <<client, on_token_refresh, entry_refresh_token, now, authed,
                   lastRotation>>
    /\ UNCHANGED host

Step(t) ==
    \/ SetTokenRefreshCallback(t)
    \/ SetTokens(t)
    \/ StartAuthenticate(t)
    \/ StartRefresh(t)
    \/ StartRequest(t)
    \/ AuthPost(t)
    \/ RefreshCheck(t)
    \/ RefreshPost(t)
    \/ RotationCallback(t)
    \/ UpdateTokens3(t)
    \/ EnsureValidToken(t)
    \/ HttpRequest(t)
    \/ Return(t)

\* one caller at a time: the single-session, single-poller design
Next == Tick \/ \E t \in Callers : Step(t)

Spec == Init /\ [][Next]_vars

-----------------------------------------------------------------------------
(* Properties of one logical _api_request call *)

RequestDone(t) == pc[t] = "done" /\ loc[t].op = "request"
Answer(s) == [ok |-> TRUE, status |-> s]
RefreshCalls(t) == h[t].ensure + h[t].reactive

\* C1, as the specification states it: when the API answers 401 to the
\* first HTTP call and, after a successful refresh, 401 to the retried one,
\* the call returns null and exactly one refresh attempt was made.
C1_ReturnsNullAfterSecond401 ==
    \A t \in Threads :
        RequestDone(t) /\ h[t].http = <<Answer(401), Answer(401)>>
        => loc[t].ret = NullRet /\ RefreshCalls(t) = 1

\* C1, amended: in that case the call returns the retried call's 401
\* response, and the 401 handling made exactly one refresh attempt (the
\* retried call's own 401 starts none).
C1_ReturnsSecond401Response ==
    \A t \in Threads :
        RequestDone(t) /\ h[t].http = <<Answer(401), Answer(401)>>
        => loc[t].ret = RespRet(401, 2) /\ h[t].reactive = 1

C1_Witness ==
    \E t \in Threads :
        RequestDone(t) /\ h[t].http = <<Answer(401), Answer(401)>>

\* C2: when the first answer is 401, the refresh returns true and the second
\* answer is 200, the call returns the second response and the retried HTTP
\* call carried the bearer header of the newly obtained access token; when
\* the refresh returns false the call returns null after one HTTP call.
C2_RetryWithNewToken ==
    \A t \in Threads :
        RequestDone(t) =>
            /\ h[t].http = <<Answer(401), Answer(200)>>
               => /\ loc[t].ret = RespRet(200, 2)
                  /\ h[t].hdr = [authorization |-> "Bearer " \o h[t].granted]
            /\ h[t].reactive = 1 /\ h[t].cur.from = "reactive"
                                 /\ h[t].cur.ret = "false"
               => loc[t].ret = NullRet /\ Len(h[t].http) = 1

C2_Witness ==
    \E t \in Threads :
        /\ RequestDone(t)
        /\ h[t].http = <<Answer(401), Answer(200)>>
        /\ h[t].granted = "A2"
        /\ h[t].ensure = 0

\* the caller is inside a call
InCall(t) == pc[t] \notin {"idle", "done"}

\* how far a call is from its end: the phase of _api_request (first check,
\* first HTTP call, 401 handling, second check, second HTTP call), and
\* inside a refresh the statement it is at
Phase(t) ==
    IF pc[t] \in {"idle", "done"} THEN 0
    ELSE IF loc[t].op # "request" THEN 1
    ELSE IF pc[t] = "ensure" THEN (IF loc[t].retry THEN 7 ELSE 3)
    ELSE IF pc[t] = "http" THEN (IF loc[t].retry THEN 5 ELSE 1)
    ELSE IF loc[t].rfrom = "reactive" THEN 4
    ELSE IF loc[t].retry THEN 6 ELSE 2

Statement(t) ==
    CASE pc[t] = "refresh_check" -> 7
      [] pc[t] = "refresh_post" -> 6
      [] pc[t] = "upd_cb" -> IF loc[t].ufrom = "refresh" THEN 5 ELSE 2
      [] pc[t] = "upd_3" -> IF loc[t].ufrom = "refresh" THEN 4 ELSE 1
      [] pc[t] = "auth_post" -> 3
      [] OTHER -> 0

Rank(t) == 8 * Phase(t) + Statement(t)

\* C3: every logical call makes at most two HTTP round-trips to the garden
\* API and terminates, whatever the API answers and whatever the refreshes
\* come to: a call in progress can always take a step, and every step it
\* takes brings it nearer its end.
C3_AtMostTwoRoundTrips ==
    /\ [](\A t \in Threads :
            /\ Len(h[t].http) <= 2
            /\ InCall(t) /\ t \in Callers => ENABLED Step(t))
    /\ [][\A t \in Threads :
            InCall(t) /\ <<pc[t], loc[t]>> # <<pc'[t], loc'[t]>>
            => Rank(t)' < Rank(t)]_vars

C3_Witness ==
    \E t \in Threads :
        /\ RequestDone(t)
        /\ Len(h[t].http) = 2
        /\ RefreshCalls(t) = 3

\* C4, as the specification states it: one logical call invokes
\* refresh_access_token() at most twice, for every expires_in.
C4_AtMostTwoRefreshes ==
    \A t \in Threads : loc[t].op = "request" => RefreshCalls(t) <= 2

-----------------------------------------------------------------------------
(* Properties of the token manager *)

\* C5, as the specification states it: when the rotation callback runs, the
\* refresh_token field still holds the previous value.
C5_CallbackBeforeOverwrite ==
    \A t \in Threads :
        pc[t] = "upd_cb" => refresh_token = loc[t].u.prev

\* C5, amended: the rotation callback runs after the field was overwritten;
\* when it runs, refresh_token holds the new value, the one the callback is
\* given, and no longer the previous one.
C5_CallbackAfterOverwrite ==
    \A t \in Threads :
        pc[t] = "upd_cb" =>
            /\ refresh_token = loc[t].u.new_refresh_token
            /\ refresh_token # loc[t].u.prev
            /\ loc[t].u.old_token = loc[t].u.prev

C5_Witness ==
    \E t \in Threads :
        /\ pc[t] = "upd_cb"
        /\ loc[t].u.prev = "R1"
        /\ loc[t].u.new_refresh_token = "R2"

\* C6: a token response whose refresh_token differs from the one held makes
\* the registered rotation callback run exactly once, with the new value,
\* and a response that does not differ makes it run not at all; every
\* refresh-grant request sent after a rotation carries the new value.
C6_RotationCallbackOnce ==
    \A t \in Threads :
        /\ pc[t] = "upd_3" =>
              LET u == loc[t].u
                  differs == Truthy(u.new_refresh_token)
                             /\ u.new_refresh_token # u.prev
              IN  /\ u.rotated <=> differs
                  /\ differs /\ on_token_refresh # NoCallback
                     => /\ u.ncb = 1
                        /\ u.cbarg = u.new_refresh_token
                        /\ refresh_token = u.new_refresh_token
                  /\ ~differs => u.ncb = 0
        /\ pc[t] = "refresh_post" /\ lastRotation # None
              => loc[t].payload = lastRotation

C6_Witness ==
    \E t \in Threads :
        /\ pc[t] = "refresh_post"
        /\ loc[t].payload = "R2"
        /\ lastRotation = "R2"
        /\ entry_refresh_token = "R2"
        /\ h[t].reactive = 1

\* no call is in progress
Quiescent == \A t \in Threads : pc[t] \in {"idle", "done"}

\* C7, as the specification states it: once authenticate() or
\* refresh_access_token() has returned true, access_token is non-empty
\* whenever expires_at is in the future.
C7_AccessTokenNonEmpty ==
    Quiescent /\ authed /\ token_expires_at > now => Truthy(access_token)

\* C8: leaving the expiry check, _api_request has called
\* refresh_access_token() exactly when now > expires_at - 300, and otherwise
\* goes to the HTTP call with nothing changed; a client whose expires_at is
\* still 0 never reaches its first HTTP call without that attempt.
C8_EnsureValidExact ==
    /\ [](\A t \in Threads :
            pc[t] = "http" /\ h[t].http = <<>> /\ token_expires_at = 0
            => h[t].ensure = 1)
    /\ [][\A t \in Threads :
            pc[t] = "ensure" /\ pc'[t] # "ensure" =>
                IF now > token_expires_at - 300
                THEN /\ pc'[t] = "refresh_check"
                     /\ h'[t].ensure = h[t].ensure + 1
                     /\ loc'[t].rfrom = "ensure"
                ELSE /\ pc'[t] = "http"
                     /\ h'[t] = h[t]
                     /\ client' = client]_vars

C8_Witness ==
    \E t \in Threads :
        /\ pc[t] = "http"
        /\ h[t].http = <<>>
        /\ h[t].ensure = 0
        /\ now = token_expires_at - 300
        /\ authed

AuthenticateDone(t) == pc[t] = "done" /\ loc[t].op = "authenticate"

\* authenticate() is about to finish _update_tokens and return
AuthenticateInstalls(t) ==
    /\ loc[t].op = "authenticate"
    /\ pc[t] = "upd_3"
    /\ pc'[t] = "done"

\* C9, as the specification states it: authenticate() returns true exactly
\* when the token endpoint answers HTTP 200, and the Session then holds the
\* response's access_token and refresh_token, with expires_at = now +
\* expires_in (36000 when absent).
C9_TrueExactlyOn200 ==
    /\ [](\A t \in Threads :
            AuthenticateDone(t) =>
                (loc[t].ret.ok <=> h[t].tok.kind \in {"ok", "malformed"}))
    /\ [][\A t \in Threads :
            AuthenticateInstalls(t) =>
                LET data == loc[t].u.data
                IN  /\ loc'[t].ret = BoolRet(TRUE)
                    /\ access_token' = Get(data, "access_token", None)
                    /\ refresh_token' = Get(data, "refresh_token", None)
                    /\ token_expires_at' = now + Get(data, "expires_in", 36000)]_vars

\* C9, amended: authenticate() returns true exactly when the token endpoint
\* answers HTTP 200 with a JSON object and the rotation callback, if it is
\* called, returns; the Session then holds the response's access_token (None
\* when absent), the response's refresh_token when it has a non-empty one and
\* else the one held before, expires_at = now + expires_in (36000 when
\* absent) and the bearer header of that access token.  In every other case
\* (another status, a transport failure, an unreadable body, a raising
\* callback) it returns false.
C9_TrueExactlyOnInstalled200 ==
    /\ [](\A t \in Threads :
            AuthenticateDone(t) =>
                /\ loc[t].ret \in {BoolRet(TRUE), BoolRet(FALSE)}
                /\ loc[t].ret.ok <=> (h[t].tok.kind = "ok" /\ h[t].tok.cb # "raised"))
    /\ [][\A t \in Threads :
            AuthenticateInstalls(t) =>
                LET data == loc[t].u.data
                    new == Get(data, "refresh_token", None)
                IN  /\ loc'[t].ret = BoolRet(TRUE)
                    /\ access_token' = Get(data, "access_token", None)
                    /\ refresh_token' = IF Truthy(new) THEN new ELSE loc[t].u.prev
                    /\ token_expires_at' = now + Get(data, "expires_in", 36000)
                    /\ headers' = [authorization |-> "Bearer " \o access_token']]_vars

C9_Witness ==
    \E t \in Threads :
        /\ AuthenticateDone(t)
        /\ loc[t].ret = BoolRet(TRUE)
        /\ access_token = "A1"
        /\ refresh_token = "R1"
        /\ token_expires_at = now + 100

\* C10: refresh_access_token() without a refresh token makes no
\* refresh-grant request and calls authenticate(); with one it sends the
\* refresh grant first, and when that comes to a non-200 response or a
\* transport error it calls authenticate() exactly once; whenever it has
\* called authenticate() it returns what authenticate() returned.
C10_RefreshFallback ==
    \A t \in Threads :
        LET c == h[t].cur
            returned == c.ret # "none"
        IN  c.from # "none" /\ pc[t] # "refresh_check" =>
                /\ ~c.held => c.grants = 0 /\ c.auths = 1
                /\ c.held /\ pc[t] # "refresh_post" => c.grants = 1
                /\ c.held /\ c.gout \in {"non200", "error"} /\ pc[t] # "refresh_post"
                   => c.auths = 1
                /\ c.held /\ pc[t] = "refresh_post" => c.grants = 0 /\ c.auths = 0
                /\ returned /\ c.auths > 0 => c.auths = 1 /\ c.ret = c.aret
                /\ returned /\ c.auths = 0 => c.gout = "ok" /\ c.ret = "true"

C10_Witness ==
    \E t \in Threads :
        /\ h[t].cur.held
        /\ h[t].cur.gout = "non200"
        /\ h[t].cur.auths = 1
        /\ h[t].cur.ret = "true"

-----------------------------------------------------------------------------
(* Failure semantics of the client *)

\* C11: authenticate(), refresh_access_token() and _api_request() never
\* raise to their caller, whatever the token endpoint, the API and the
\* rotation callback do: authenticate and refresh return a boolean, the
\* request returns a response or null.
C11_NeverRaises ==
    \A t \in Threads :
        pc[t] = "done" =>
            /\ loc[t].op \in {"authenticate", "refresh"} => loc[t].ret.kind = "bool"
            /\ loc[t].op = "request" => loc[t].ret.kind \in {"resp", "null"}

\* authenticate() got a 200, the rotation callback raised inside
\* _update_tokens, and the call has returned False
C11_Witness ==
    \E t \in Threads :
        /\ pc[t] = "done" /\ loc[t].op = "authenticate"
        /\ h[t].tok.kind = "ok" /\ h[t].tok.cb = "raised"
        /\ loc[t].ret = BoolRet(FALSE)

-----------------------------------------------------------------------------
(* The Session as a whole: access_token, expires_at and the authorization  *)
(* header are written by separate statements of _update_tokens             *)

\* no token has been installed: the client is as __init__ left it
NeverInstalled == ~authed /\ access_token = None

\* the authorization header is the bearer header of the access token held
HeaderOfToken == headers = SetAuthorization(Bearer(access_token))

\* a completed authenticate() or refresh_access_token()
TokenOpDone(t) == pc[t] = "done" /\ loc[t].op \in {"authenticate", "refresh"}

\* C21, as the specification states it: after every completed call of
\* authenticate(), refresh_access_token() or set_tokens(), whatever it
\* returned and whatever the rotation callback did, the headers have no
\* authorization entry if no token was ever installed and else exactly the
\* bearer header of the current access_token, and expires_at comes from
\* the token response the access_token comes from (the _update_tokens that
\* assigned access_token also ran its lines 141-142).
C21_HeaderMatchesToken ==
    Quiescent =>
        /\ IF NeverInstalled THEN headers = EmptyMap ELSE HeaderOfToken
        /\ \A t \in Threads : TokenOpDone(t) => h[t].upd # "begun"

\* the token endpoint refused the grant or was not reached
Refused(kind) == kind \in {"non200", "error"}

\* the completed call of caller t failed at the token endpoint:
\* authenticate() whose password grant was refused, or
\* refresh_access_token() whose refresh grant was refused and whose
\* fallback authenticate() was refused too
FailedAtEndpoint(t) ==
    /\ TokenOpDone(t)
    /\ h[t].tok.grant = "password" /\ Refused(h[t].tok.kind)
    /\ loc[t].op = "refresh" =>
          h[t].cur.grants = 1 /\ Refused(h[t].cur.gout) /\ h[t].cur.auths = 1

\* C24: a failed authenticate() (non-200 response or transport error) and
\* a refresh_access_token() in which the refresh grant and the fallback
\* authenticate() both fail return false, leave access_token,
\* refresh_token, expires_at and the authorization header as they were
\* and do not invoke the rotation callback: such a call never enters
\* _update_tokens, and a step of a call that has not entered
\* _update_tokens changes none of the four, does not reach the callback
\* and leaves the persisted token alone.
C24_FailureLeavesSession ==
    /\ [](\A t \in Threads :
            FailedAtEndpoint(t) =>
                loc[t].ret = BoolRet(FALSE) /\ h[t].upd = "none")
    /\ [][\A t \in Threads :
            pc[t] # "idle" =>
                /\ h'[t].upd = "none" =>
                      /\ client' = client
                      /\ entry_refresh_token' = entry_refresh_token
                      /\ pc'[t] # "upd_cb"
                /\ h[t].upd # "none" /\ pc'[t] # "idle" => h'[t].upd # "none"]_vars

\* a refresh_access_token() of a logged-in client with a registered
\* callback has returned false after a refused refresh grant and a
\* password grant that did not reach the endpoint
C24_Witness ==
    \E t \in Threads :
        /\ FailedAtEndpoint(t)
        /\ loc[t].op = "refresh"
        /\ h[t].cur.gout = "non200" /\ h[t].tok.kind = "error"
        /\ access_token = "A1" /\ refresh_token = "R1"
        /\ headers = SetAuthorization(Bearer("A1"))
        /\ on_token_refresh = PersistCallback

\* the token response _update_tokens of caller t works on carries no
\* refresh_token, or the one held when it was entered
KeepsRefreshToken(t) ==
    \/ ~Truthy(loc[t].u.new_refresh_token)
    \/ loc[t].u.new_refresh_token = loc[t].u.prev

\* C25: when a successful token response carries no refresh_token, or one
\* equal to the token held, _update_tokens leaves the held refresh_token
\* as it is and does not invoke the rotation callback (it does not reach
\* line 137 and the persisted token stays), while access_token is the
\* response's and expires_at becomes now + expires_in (36000 when absent).
C25_SameTokenIsNoRotation ==
    /\ [](\A t \in Threads :
            pc[t] \in {"upd_cb", "upd_3"} /\ KeepsRefreshToken(t) =>
                /\ pc[t] = "upd_3"
                /\ loc[t].u.ncb = 0
                /\ refresh_token = loc[t].u.prev
                /\ access_token = Get(loc[t].u.data, "access_token", None))
    /\ [][\A t \in Threads :
            pc[t] = "upd_3" /\ KeepsRefreshToken(t) /\ pc'[t] # "upd_3" =>
                /\ refresh_token' = loc[t].u.prev
                /\ entry_refresh_token' = entry_refresh_token
                /\ access_token' = Get(loc[t].u.data, "access_token", None)
                /\ token_expires_at' =
                      now + Get(loc[t].u.data, "expires_in", DEFAULT_EXPIRES_IN)
                /\ h'[t].upd = "finished"]_vars

\* with a callback registered, _update_tokens has taken a response whose
\* refresh_token is the one held and whose access_token is new
C25_Witness ==
    \E t \in Threads :
        /\ pc[t] = "upd_3"
        /\ on_token_refresh = PersistCallback
        /\ loc[t].u.prev = "R1" /\ loc[t].u.new_refresh_token = "R1"
        /\ refresh_token = "R1" /\ entry_refresh_token = "R1"
        /\ access_token = "A2" /\ headers = SetAuthorization(Bearer("A1"))

-----------------------------------------------------------------------------
(* Recovery: the client after failures, once the identity provider and the *)
(* API answer well again                                                   *)

\* from here on the identity provider and the API have recovered; the
\* client is left as the calls so far left it
Recover ==
    /\ scenario = "client"
    /\ \A t \in Threads : pc[t] = "idle"
    /\ scenario' = "recovered"
    /\ UNCHANGED <<client, on_token_refresh, entry_refresh_token, now, pc, loc,
                   h, authed, lastRotation, setup, job, coordinator_data, view>>

NextRecovery == Next \/ Recover

SpecRecovery == Init /\ [][NextRecovery]_vars

\* C23, as the specification states it: whatever failed before, once the
\* identity provider accepts the password grant and the API accepts the
\* issued token, every _api_request call made from then on, the very next
\* one included, returns the API's 200 response.
C23_NextRequestSucceeds ==
    \A t \in Threads :
        Recovered /\ RequestDone(t) =>
            loc[t].ret.kind = "resp" /\ loc[t].ret.status = HTTP_OK

-----------------------------------------------------------------------------
(* Python float arithmetic with the literal 2.55 (light.py:101, 114).  A    *)
(* float is an IEEE binary64: 53 significant bits, round to nearest, ties   *)
(* to even.  The double nearest to 2.55 is Mantissa255 / 2^51.  Naturals    *)
(* beyond 31 bits are triples of limbs, least significant first.            *)

Limb == 1048576
\* 5742089524897382 = 5222 * 2^40 + 419430 * 2^20 + 419430
Mantissa255 == <<419430, 419430, 5222>>

\* the w lowest bits of n, most significant first
RECURSIVE Bits(_, _)
Bits(n, w) == IF w = 0 THEN <<>> ELSE Append(Bits(n \div 2, w - 1), n % 2)

\* the natural number a bit sequence stands for
RECURSIVE Val(_)
Val(s) == IF s = <<>> THEN 0 ELSE 2 * Val(SubSeq(s, 1, Len(s) - 1)) + s[Len(s)]

\* a bit sequence plus one
RECURSIVE Inc(_)
Inc(s) ==
    IF s = <<>> THEN <<>>
    ELSE IF s[Len(s)] = 0 THEN [s EXCEPT ![Len(s)] = 1]
    ELSE Append(Inc(SubSeq(s, 1, Len(s) - 1)), 0)

MulSmall(a, k) ==
    LET p0 == k * a[1]
        p1 == k * a[2] + p0 \div Limb
        p2 == k * a[3] + p1 \div Limb
    IN  <<p0 % Limb, p1 % Limb, p2>>

Geq(a, b) ==
    \/ a[3] > b[3]
    \/ a[3] = b[3] /\ (a[2] > b[2] \/ (a[2] = b[2] /\ a[1] >= b[1]))

Sub(a, b) ==
    LET c0 == IF a[1] < b[1] THEN 1 ELSE 0
        c1 == IF a[2] - c0 < b[2] THEN 1 ELSE 0
    IN  <<a[1] - b[1] + c0 * Limb, a[2] - c0 - b[2] + c1 * Limb,
          a[3] - c1 - b[3]>>

\* the w lowest bits of a limb triple, most significant first
BitsOf(a, w) == Bits(a[3], w - 40) \o Bits(a[2], 20) \o Bits(a[1], 20)

\* the exact bits of a result (sticky: nonzero bits beyond them) rounded
\* to the 53 bits a double keeps, positions unchanged
Round53(bits, sticky) ==
    LET ones == {i \in 1..Len(bits) : bits[i] = 1}
    IN  IF ones = {} THEN bits
        ELSE LET lead == CHOOSE i \in ones : \A j \in ones : i <= j
                 last == lead + 52
             IN  IF last >= Len(bits) THEN bits
                 ELSE LET rest == sticky \/ \E i \in (last + 2)..Len(bits) : bits[i] = 1
                          up == bits[last + 1] = 1 /\ (rest \/ bits[last] = 1)
                          kept == SubSeq(bits, 1, last)
                      IN  (IF up THEN Inc(kept) ELSE kept)
                          \o [i \in 1..(Len(bits) - last) |-> 0]

\* n digits, base 16, of r * 16^n / Mantissa255, and the remainder
RECURSIVE LongDiv(_, _)
LongDiv(r, n) ==
    IF n = 0 THEN [q |-> <<>>, r |-> r]
    ELSE LET s == MulSmall(r, 16)
             d == CHOOSE k \in 0..15 :
                      /\ Geq(s, MulSmall(Mantissa255, k))
                      /\ ~Geq(s, MulSmall(Mantissa255, k + 1))
             rest == LongDiv(Sub(s, MulSmall(Mantissa255, d)), n - 1)
         IN  [q |-> Bits(d, 4) \o rest.q, r |-> rest.r]

\* int(n * 2.55): the product n * Mantissa255 has 51 fraction bits, and
\* int() drops the fraction of the rounded product
IntTimes255(n) ==
    Val(SubSeq(Round53(BitsOf(MulSmall(Mantissa255, n), 62), FALSE), 1, 11))

\* int(b / 2.55) for 0 <= b < 256: b / 2.55 = (b * 2^44) * 2^7 / Mantissa255,
\* with b * 2^44 < Mantissa255; 7 integer bits and 57 fraction bits of the
\* quotient are computed, rounded, and int() drops the fraction
IntOver255(b) ==
    LET d == LongDiv(<<0, 0, 16 * b>>, 16)
    IN  Val(SubSeq(Round53(<<0>> \o d.q, d.r # <<0, 0, 0>>), 1, 8))

\* the two conversions on the values they are applied to
LevelTimes255 == [n \in 0..100 |-> IntTimes255(n)]
BrightnessOver255 == [b \in 0..255 |-> IntOver255(b)]

Max(a, b) == IF a >= b THEN a ELSE b
Min(a, b) == IF a <= b THEN a ELSE b

-----------------------------------------------------------------------------
(* The entities' projections of the snapshot (light.py, sensor.py).  An     *)
(* optional number is a sequence: <<>> is None, <<v>> is v.  A key whose    *)
(* JSON value is null is a key the record does not have: dict.get gives     *)
(* None for both.                                                           *)

GardenIds == {1, 2}

\* light.py:76-82, sensor.py:83-89: _get_garden_data
get_garden_data(d, garden_id) ==
    LET gardens_list == Get(d, "gardens_list", EmptyMap)
        gardens == Get(gardens_list, "gardens", <<>>)
        found == SelectSeq(gardens, LAMBDA garden : garden["id"] = garden_id)
    IN  IF found = <<>> THEN JsonNull ELSE Head(found)

\* sensor.py:91-94: _get_device_data
get_device_data(d, garden_id) ==
    Get(Get(d, "device_data", EmptyMap), ToString(garden_id), JsonNull)

\* `if garden:` for a dict or None
TruthyDict(x) == x # JsonNull /\ x # EmptyMap

\* light.py:84-91
is_on(d, garden_id) ==
    LET garden == get_garden_data(d, garden_id)
    IN  IF TruthyDict(garden)
        THEN "light_level" \in DOMAIN garden /\ garden["light_level"] > 0
        ELSE FALSE

\* light.py:93-102
brightness(d, garden_id) ==
    LET garden == get_garden_data(d, garden_id)
    IN  IF TruthyDict(garden) /\ "light_level" \in DOMAIN garden
        THEN <<LevelTimes255[garden["light_level"]]>>
        ELSE <<>>

\* light.py:104-108
available(d, garden_id) ==
    LET garden == get_garden_data(d, garden_id)
    IN  garden # JsonNull /\ Get(garden, "is_online", FALSE)

\* light.py:112-115: the level async_turn_on sends
TurnOnLevel(kwargs) ==
    LET b == Get(kwargs, "brightness", 255)
        level == BrightnessOver255[b]
    IN  Max(1, Min(100, level))

\* sensor.py:109-118: RiseGardenWaterSensor.native_value
water_level(d, garden_id) ==
    LET garden == get_garden_data(d, garden_id)
    IN  IF TruthyDict(garden) /\ "water_led_index" \in DOMAIN garden
        THEN <<Min(100, Max(0, garden["water_led_index"] * 20))>>
        ELSE <<>>

\* sensor.py:147-153: RiseGardenOnlineSensor.native_value
online_status(d, garden_id) ==
    LET garden == get_garden_data(d, garden_id)
    IN  IF TruthyDict(garden)
        THEN IF Get(garden, "is_online", FALSE) THEN "Online" ELSE "Offline"
        ELSE "Unknown"

\* sensor.py:175-181: RiseGardenTasksSensor.native_value
pending_tasks(d, garden_id) ==
    LET garden == get_garden_data(d, garden_id)
    IN  IF TruthyDict(garden) THEN <<Get(garden, "number_of_tasks", 0)>>
        ELSE <<0>>

\* sensor.py:213-220: RiseGardenTemperatureSensor.native_value
temperature(d, garden_id) ==
    LET device_data == get_device_data(d, garden_id)
    IN  IF TruthyDict(device_data) /\ "at" \in DOMAIN device_data
        THEN <<device_data["at"]>> ELSE <<>>

\* sensor.py:247-253: RiseGardenWaterDepthSensor.native_value
water_depth(d, garden_id) ==
    LET device_data == get_device_data(d, garden_id)
    IN  IF TruthyDict(device_data) /\ "water_depth" \in DOMAIN device_data
        THEN <<device_data["water_depth"]>> ELSE <<>>

-----------------------------------------------------------------------------
(* The Garden API facade (api.py:180-230) and the integration's coroutines  *)
(* (__init__.py, light.py).  A coroutine hands each client call to an       *)
(* executor thread and awaits it: the call runs as the statements of the    *)
(* client above, in the caller's own pc, loc and h.                         *)

FacadeOps == {"get_gardens_list", "get_gardens_device_data",
              "get_light_schedule", "set_light_level", "get_last_sensor_data",
              "set_pump", "get_pump_schedule"}
\* the operations that return a boolean (api.py:204-208, 218-222)
Commands == {"set_light_level", "set_pump"}

\* a JSON object of a 200 of the garden API
GardensBody == [gardens |-> <<[id |-> 1, light_level |-> 50, is_online |-> TRUE]>>]

\* what response.json() of a 200 comes to: an object, {}, null, or it raises
ParseOutcomes ==
    { [ok |-> TRUE, body |-> b] : b \in {GardensBody, EmptyMap, JsonNull} }
    \cup { [ok |-> FALSE, body |-> JsonNull] }

\* the bodies the garden API of this run sends with a 200
ParseAnswers ==
    IF scenario = "race"
    THEN {o \in ParseOutcomes : o.body \notin {EmptyMap, JsonNull} \/ ~o.ok}
    ELSE ParseOutcomes

\* bool(response) of requests: the status is below 400
ResponseTruthy(status) == status < 400

\* api.py:180-230: what a facade operation does with the return value of
\* _api_request; a getter calls response.json() outside any try
FacadeResult(op, ret, parse) ==
    IF ret.kind = "raised" THEN Thrown
    ELSE IF op \in Commands
    THEN Returned(JsonNull, ret.kind = "resp" /\ ret.status = HTTP_OK)
    ELSE IF ret.kind = "resp" /\ ResponseTruthy(ret.status) /\ ret.status = HTTP_OK
    THEN IF parse.ok THEN Returned(parse.body, FALSE) ELSE Thrown
    ELSE Returned(JsonNull, FALSE)

\* the executor starts self._api_request(method, url) of a facade operation
CallFacade == Goto("ensure", [L0 EXCEPT !.op = "request"], H0)

\* the coroutine got the result of its executor job
Resume == Goto("idle", L0, H0)

SetJob(t, j) == job' = [job EXCEPT ![t] = j]

\* the keyword arguments of light.turn_on the integration is driven with
TurnOnArgs ==
    IF scenario = "race" THEN {EmptyMap}
    ELSE {EmptyMap, [brightness |-> 1], [brightness |-> 128]}

\* the gardens that have a light entity
LightGardens == IF scenario = "race" THEN {1} ELSE GardenIds

\* no other coroutine is in progress
Alone(t) == \A u \in Threads \ {t} : pc[u] = "idle" /\ job[u] = J0

\* a coroutine of caller t may start: at any time in the race scenario,
\* else when no other is in progress
MayStart(t) == pc[t] = "idle" /\ job[t] = J0 /\ (scenario = "race" \/ Alone(t))

\* __init__.py:22-49: async_setup_entry creates the client, registers the
\* callback and restores the session from the stored refresh token, or
\* logs in when the entry has none
SetupStart(t) ==
    /\ t = "poll" /\ setup = "none"
    /\ MayStart(t)
    /\ setup' = "running"
    /\ on_token_refresh' = PersistCallback
    /\ LET stored_refresh_token == entry_refresh_token
       IN  IF Truthy(stored_refresh_token)
           THEN /\ refresh_token' = stored_refresh_token
                /\ Apply(t, [CallRefresh([L0 EXCEPT !.op = "refresh"], H0, "top")
                               EXCEPT !.h.cur.held = TRUE])
                /\ SetJob(t, [J0 EXCEPT !.kind = "setup", !.at = "refresh",
                                        !.stored = stored_refresh_token])
           ELSE /\ refresh_token' = refresh_token
                /\ Apply(t, CallAuthenticate([L0 EXCEPT !.op = "authenticate"],
                                             H0, "top"))
                /\ SetJob(t, [J0 EXCEPT !.kind = "setup", !.at = "authenticate",
                                        !.stored = stored_refresh_token])
    /\ UNCHANGED <<access_token, token_expires_at, headers, entry_refresh_token,
                   now, authed, lastRotation, scenario, coordinator_data, view>>

\* __init__.py:56: the refresh token the entry holds after a successful
\* authentication
StoredAfterAuth(stored_refresh_token) ==
    IF Truthy(refresh_token) /\ refresh_token # stored_refresh_token
    THEN refresh_token ELSE entry_refresh_token

\* __init__.py:45-89: auth_success arrives.  A failed restore is followed
\* by authenticate(); a failed authenticate() ends the setup with False;
\* success stores the refresh token and starts the first refresh
SetupAuthResult(t) ==
    /\ pc[t] = "done" /\ job[t].kind = "setup"
    /\ LET auth_success == loc[t].ret.kind = "bool" /\ loc[t].ret.ok
       IN  IF loc[t].ret.kind = "bool" /\ ~auth_success /\ job[t].at = "refresh"
           THEN /\ Apply(t, CallAuthenticate([L0 EXCEPT !.op = "authenticate"],
                                             H0, "top"))
                /\ SetJob(t, [job[t] EXCEPT !.at = "authenticate"])
                /\ UNCHANGED <<setup, entry_refresh_token>>
           ELSE IF ~auth_success
           THEN /\ Apply(t, Resume)
                /\ SetJob(t, J0)
                /\ setup' = "failed"
                /\ UNCHANGED entry_refresh_token
           ELSE /\ entry_refresh_token' = StoredAfterAuth(job[t].stored)
                /\ Apply(t, CallFacade)
                /\ SetJob(t, [J0 EXCEPT !.kind = "update", !.first = TRUE,
                                        !.at = "list", !.op = "get_gardens_list"])
                /\ UNCHANGED setup
    /\ UNCHANGED <<client, on_token_refresh, now, authed, lastRotation, scenario,
                   coordinator_data, view>>

\* the coordinator's timer, or a requested refresh, starts async_update_data
\* (__init__.py:60-63)
UpdateStart(t) ==
    /\ t = "poll" /\ setup = "ok"
    /\ MayStart(t)
    /\ Apply(t, CallFacade)
    /\ SetJob(t, [J0 EXCEPT !.kind = "update", !.at = "list",
                            !.op = "get_gardens_list"])
    /\ UNCHANGED <<client, on_token_refresh, entry_refresh_token, now, authed,
                   lastRotation, scenario, setup, coordinator_data, view>>

\* __init__.py:63-64, 75-78: get_gardens_list has ended; an exception ends
\* the cycle with UpdateFailed, a value is followed by
\* get_gardens_device_data
UpdateListFetched(t) ==
    /\ pc[t] = "done" /\ job[t].kind = "update" /\ job[t].at = "list"
    /\ \E parse \in ParseAnswers :
          LET r == FacadeResult(job[t].op, loc[t].ret, parse)
          IN  IF r.kind = "raised"
              THEN /\ Apply(t, Resume)
                   /\ SetJob(t, [job[t] EXCEPT !.gardens_list = r, !.at = "end",
                                               !.op = "none",
                                               !.outcome = "update_failed"])
              ELSE /\ Apply(t, CallFacade)
                   /\ SetJob(t, [job[t] EXCEPT !.gardens_list = r, !.at = "device",
                                               !.op = "get_gardens_device_data"])
    /\ UNCHANGED <<client, on_token_refresh, entry_refresh_token, now, authed,
                   lastRotation, scenario, setup, coordinator_data, view>>

\* mutant of UpdateFails: a missing device_data fails the cycle too
UpdateFails_EitherNone(gardens_list, device_data) ==
    gardens_list = JsonNull \/ device_data = JsonNull

\* __init__.py:66: the cycle raises UpdateFailed
UpdateFails(gardens_list, device_data) == gardens_list = JsonNull

\* __init__.py:71-74: the snapshot the cycle returns
Snapshot(gardens_list, device_data) ==
    [gardens_list |-> gardens_list,
     device_data |-> IF TruthyDict(device_data) THEN device_data ELSE EmptyMap]

\* __init__.py:64-78: get_gardens_device_data has ended and the cycle ends,
\* with UpdateFailed or with the snapshot
UpdateDeviceFetched(t) ==
    /\ pc[t] = "done" /\ job[t].kind = "update" /\ job[t].at = "device"
    /\ \E parse \in ParseAnswers :
          LET r == FacadeResult(job[t].op, loc[t].ret, parse)
              gl == job[t].gardens_list.value
              j == [job[t] EXCEPT !.device_data = r, !.at = "end", !.op = "none"]
          IN  SetJob(t, IF r.kind = "raised" \/ UpdateFails(gl, r.value)
                        THEN [j EXCEPT !.outcome = "update_failed"]
                        ELSE [j EXCEPT !.outcome = "snapshot",
                                       !.snapshot = Snapshot(gl, r.value)])
    /\ Apply(t, Resume)
    /\ UNCHANGED <<client, on_token_refresh, entry_refresh_token, now, authed,
                   lastRotation, scenario, setup, coordinator_data, view>>

\* light.py:110-121: async_turn_on of the entity of a garden
TurnOn(t) ==
    /\ t = "cmd" /\ setup = "ok"
    /\ MayStart(t)
    /\ \E garden_id \in LightGardens, kwargs \in TurnOnArgs :
          SetJob(t, [J0 EXCEPT !.kind = "turn_on", !.at = "set",
                               !.garden_id = garden_id,
                               !.op = "set_light_level",
                               !.sent = <<<<garden_id, TurnOnLevel(kwargs)>>>>])
    /\ Apply(t, CallFacade)
    /\ UNCHANGED <<client, on_token_refresh, entry_refresh_token, now, authed,
                   lastRotation, scenario, setup, coordinator_data, view>>

\* light.py:128-134: async_turn_off of the entity of a garden
TurnOff(t) ==
    /\ t = "cmd" /\ setup = "ok"
    /\ MayStart(t)
    /\ \E garden_id \in LightGardens :
          SetJob(t, [J0 EXCEPT !.kind = "turn_off", !.at = "set",
                               !.garden_id = garden_id,
                               !.op = "set_light_level",
                               !.sent = <<<<garden_id, 0>>>>])
    /\ Apply(t, CallFacade)
    /\ UNCHANGED <<client, on_token_refresh, entry_refresh_token, now, authed,
                   lastRotation, scenario, setup, coordinator_data, view>>

\* mutant of RequestsRefresh: the refresh is requested whatever came back
RequestsRefresh_Always(success) == TRUE

\* light.py:123, 136: `if success:`
RequestsRefresh(success) == success

\* light.py:119-126, 132-139: set_light_level has ended; on success the
\* entity asks the coordinator for a refresh
CommandDone(t) ==
    /\ pc[t] = "done" /\ job[t].kind \in {"turn_on", "turn_off"}
    /\ job[t].at = "set"
    /\ LET r == FacadeResult(job[t].op, loc[t].ret, [ok |-> FALSE, body |-> JsonNull])
           success == r.kind = "value" /\ r.ok
       IN  SetJob(t, [job[t] EXCEPT !.result = r, !.at = "end",
                                    !.response = loc[t].ret,
                                    !.requested = IF r.kind = "value"
                                                     /\ RequestsRefresh(success)
                                                  THEN @ + 1 ELSE @])
    /\ Apply(t, Resume)
    /\ UNCHANGED <<client, on_token_refresh, entry_refresh_token, now, authed,
                   lastRotation, scenario, setup, coordinator_data, view>>

\* a caller of the facade calls one of its operations
FacadeCall(t) ==
    /\ t = "cmd" /\ setup = "ok"
    /\ MayStart(t)
    /\ \E op \in FacadeOps :
          SetJob(t, [J0 EXCEPT !.kind = "call", !.at = "call", !.op = op])
    /\ Apply(t, CallFacade)
    /\ UNCHANGED <<client, on_token_refresh, entry_refresh_token, now, authed,
                   lastRotation, scenario, setup, coordinator_data, view>>

\* the facade operation ends: it returns or raises
FacadeDone(t) ==
    /\ pc[t] = "done" /\ job[t].kind = "call"
    /\ \E parse \in ParseAnswers :
          SetJob(t, [job[t] EXCEPT
                        !.result = FacadeResult(job[t].op, loc[t].ret, parse),
                        !.at = "end", !.response = loc[t].ret, !.parse = parse])
    /\ Apply(t, Resume)
    /\ UNCHANGED <<client, on_token_refresh, entry_refresh_token, now, authed,
                   lastRotation, scenario, setup, coordinator_data, view>>

\* the coroutine ends.  The coordinator keeps the snapshot of a cycle that
\* returned one; the first refresh decides the setup (__init__.py:89)
JobEnd(t) ==
    /\ pc[t] = "idle" /\ job[t].at = "end"
    /\ SetJob(t, J0)
    /\ coordinator_data' = IF job[t].outcome = "snapshot" THEN job[t].snapshot
                           ELSE coordinator_data
    /\ setup' = IF job[t].first
                THEN IF job[t].outcome = "snapshot" THEN "ok" ELSE "failed"
                ELSE setup
    /\ UNCHANGED <<client, on_token_refresh, entry_refresh_token, now, pc, loc, h,
                   authed, lastRotation, scenario, view>>

\* the config entry is set up again (a retry after a failed setup, a
\* reload, a restart): a new client, the entry's data as it was persisted
Reload(t) ==
    /\ t = "poll" /\ setup \in {"ok", "failed"}
    /\ \A u \in Threads : pc[u] = "idle" /\ job[u] = J0
    /\ access_token' = None
    /\ refresh_token' = None
    /\ token_expires_at' = 0
    /\ on_token_refresh' = NoCallback
    /\ headers' = EmptyMap
    /\ authed' = FALSE
    /\ lastRotation' = None
    /\ setup' = "none"
    /\ coordinator_data' = JsonNull
    /\ UNCHANGED <<entry_refresh_token, now, pc, loc, h, job, scenario, view>>

Run(t) ==
    \/ SetupStart(t)
    \/ SetupAuthResult(t)
    \/ UpdateStart(t)
    \/ UpdateListFetched(t)
    \/ UpdateDeviceFetched(t)
    \/ TurnOn(t)
    \/ TurnOff(t)
    \/ CommandDone(t)
    \/ FacadeCall(t)
    \/ FacadeDone(t)
    \/ JobEnd(t)
    \/ Reload(t)
    \/ AuthPost(t)
    \/ RefreshCheck(t)
    \/ RefreshPost(t)
    \/ RotationCallback(t)
    \/ UpdateTokens3(t)
    \/ EnsureValidToken(t)
    \/ HttpRequest(t)

\* the integration, one coroutine at a time: setup, polling cycles, light
\* commands and direct calls of the facade, none overlapping another
InitHA ==
    /\ Fresh
    /\ scenario = "integration"
    /\ entry_refresh_token = None
    /\ coordinator_data = JsonNull
    /\ view = NoView

NextHA == \E t \in Threads : Run(t)

SpecHA == InitHA /\ [][NextHA]_vars

\* the integration as Home Assistant runs it after a setup that logged in
\* and took the first snapshot: the polling cycle and the light commands
\* await executor jobs, which run side by side on the shared client
LoggedIn ==
    /\ access_token = "A1"
    /\ refresh_token = "R1"
    /\ token_expires_at = StartTime + 100
    /\ on_token_refresh = PersistCallback
    /\ headers = SetAuthorization(Bearer("A1"))
    /\ entry_refresh_token = "R1"
    /\ now = StartTime
    /\ pc = [t \in Threads |-> "idle"]
    /\ loc = [t \in Threads |-> L0]
    /\ h = [t \in Threads |-> H0]
    /\ authed = TRUE
    /\ lastRotation = "R1"
    /\ setup = "ok"
    /\ job = [t \in Threads |-> J0]

InitRace ==
    /\ LoggedIn
    /\ scenario = "race"
    /\ coordinator_data = Snapshot(GardensBody, EmptyMap)
    /\ view = NoView

Race(t) ==
    \/ UpdateStart(t)
    \/ UpdateListFetched(t)
    \/ UpdateDeviceFetched(t)
    \/ TurnOn(t)
    \/ TurnOff(t)
    \/ CommandDone(t)
    \/ JobEnd(t)
    \/ AuthPost(t)
    \/ RefreshCheck(t)
    \/ RefreshPost(t)
    \/ RotationCallback(t)
    \/ UpdateTokens3(t)
    \/ EnsureValidToken(t)
    \/ HttpRequest(t)

NextRace == \E t \in Threads : Race(t)

SpecRace == InitRace /\ [][NextRace]_vars

-----------------------------------------------------------------------------
(* The facade and the persisted refresh token *)

\* the facade operation of caller t has ended
FacadeEnded(t) == job[t].kind = "call" /\ job[t].at = "end"
\* _api_request returned a response with status 200
Final200(t) == job[t].response.kind = "resp" /\ job[t].response.status = HTTP_OK

\* C12: no facade operation raises: it returns the parsed body (true for a
\* command) when the final response has status 200, and null (false) in
\* every other case, a 200 whose body is not JSON included.
C12_FacadeNeverRaises ==
    \A t \in Threads :
        FacadeEnded(t) =>
            LET j == job[t]
            IN  /\ j.result.kind = "value"
                /\ j.op \in Commands => (j.result.ok <=> Final200(t))
                /\ j.op \notin Commands =>
                      j.result.value = IF Final200(t) /\ j.parse.ok
                                       THEN j.parse.body ELSE JsonNull

\* no coroutine is running and no client call is in progress
Quiet == \A t \in Threads : pc[t] = "idle" /\ job[t] = J0

\* C13: with the callback async_setup_entry registers, once the setup has
\* returned success, whenever no call is in progress (calls never
\* overlapping), a non-empty refresh token of the client is the refresh
\* token persisted in the config entry.
C13_PersistedTokenIsCurrent ==
    setup = "ok" /\ Quiet /\ Truthy(refresh_token)
        => entry_refresh_token = refresh_token

-----------------------------------------------------------------------------
(* Concurrency and the polling cycle *)

\* caller t is inside refresh_access_token() or authenticate()
InTokenOp(t) ==
    pc[t] \in {"auth_post", "refresh_check", "refresh_post", "upd_cb", "upd_3"}

\* C14: over all interleavings of the polling cycle's client calls and the
\* light entity's set_light_level calls, no two executions of
\* refresh_access_token()/authenticate() are in progress at the same time.
C14_NoConcurrentRefresh ==
    \A t, u \in Threads : t # u => ~(InTokenOp(t) /\ InTokenOp(u))

\* the client call of caller t has returned after exactly one
\* refresh_access_token(), whose refresh grant was answered with a rotated
\* refresh token that the rotation callback was given and stored
RefreshedWithRotation(t) ==
    /\ pc[t] = "done"
    /\ RefreshCalls(t) = 1
    /\ h[t].cur.grants = 1 /\ h[t].cur.auths = 0
    /\ h[t].tok = [grant |-> "refresh", kind |-> "ok", cb |-> "returned"]

\* C22, as the specification states it: when a request of the polling
\* cycle and a request of a light command have each refreshed the token in
\* executor threads running side by side, and each got a rotated refresh
\* token, then once both have returned the refresh token the rotation
\* callback persisted is the one the client holds.
C22_NoLostRotation ==
    \A t, u \in Threads :
        /\ job[t].kind = "update" /\ job[u].kind \in {"turn_on", "turn_off"}
        /\ RefreshedWithRotation(t) /\ RefreshedWithRotation(u)
        => entry_refresh_token = refresh_token

\* caller t runs a polling cycle; it has ended
InCycle(t) == job[t].kind = "update"
CycleEnded(t) == InCycle(t) /\ job[t].at = "end"

\* C15: in a polling cycle get_gardens_list has returned before
\* get_gardens_device_data starts; the cycle ends in UpdateFailed exactly
\* when get_gardens_list returned null or an exception occurred; a null
\* device_data alone gives a snapshot whose device_data is the empty map.
C15_CycleOrderAndOutcome ==
    \A t \in Threads :
        InCycle(t) =>
            LET j == job[t]
                raised == j.gardens_list.kind = "raised"
                              \/ j.device_data.kind = "raised"
            IN  /\ j.op = "get_gardens_list" =>
                      j.gardens_list = Unfetched /\ j.device_data = Unfetched
                /\ j.op = "get_gardens_device_data" \/ j.device_data # Unfetched =>
                      j.gardens_list.kind = "value"
                /\ CycleEnded(t) =>
                      /\ j.outcome \in {"update_failed", "snapshot"}
                      /\ j.outcome = "update_failed" <=>
                            (raised \/ j.gardens_list.value = JsonNull)
                      /\ j.outcome = "snapshot" =>
                            /\ j.snapshot.gardens_list = j.gardens_list.value
                            /\ j.device_data.value = JsonNull =>
                                  j.snapshot.device_data = EmptyMap

\* a cycle got the gardens and null for the device data, and ended with a
\* snapshot
C15_Witness ==
    \E t \in Threads :
        /\ CycleEnded(t)
        /\ job[t].gardens_list = Returned(GardensBody, FALSE)
        /\ job[t].device_data = Returned(JsonNull, FALSE)
        /\ job[t].outcome = "snapshot"

-----------------------------------------------------------------------------
(* The light entity's commands *)

CommandEnded(t) == job[t].kind \in {"turn_on", "turn_off"} /\ job[t].at = "end"
\* what _api_request returned to set_light_level has status 200
Command200(t) == job[t].response.kind = "resp" /\ job[t].response.status = HTTP_OK

\* C19: async_turn_off passes exactly one (garden_id, 0) to
\* set_light_level, with the entity's own garden id; turn-on and turn-off
\* request a coordinator refresh after the command exactly when the final
\* status was 200, and none on failure.
C19_TurnOffAndRefresh ==
    \A t \in Threads :
        /\ job[t].kind = "turn_off" => job[t].sent = <<<<job[t].garden_id, 0>>>>
        /\ job[t].kind \in {"turn_on", "turn_off"} /\ job[t].at = "set" =>
              job[t].requested = 0
        /\ CommandEnded(t) =>
              job[t].requested = IF Command200(t) THEN 1 ELSE 0

\* a turn-off whose call ended with a 401 answer to its retry has ended
\* without a refresh request
C19_Witness ==
    \E t \in Threads :
        /\ CommandEnded(t) /\ job[t].kind = "turn_off"
        /\ job[t].response = RespRet(HTTP_UNAUTHORIZED, 2)
        /\ job[t].requested = 0

-----------------------------------------------------------------------------
(* The entities as functions of the snapshot: every light level, every    *)
(* brightness argument                                                      *)

\* the Garden records of the snapshots: every light level of an online
\* garden, and records that are offline or lack fields
GardenRecords ==
    { [id |-> 1, light_level |-> L, is_online |-> TRUE, water_led_index |-> 3,
       number_of_tasks |-> 2] : L \in 0..100 }
    \cup { [id |-> 1, light_level |-> 50, is_online |-> FALSE],
           [id |-> 1, light_level |-> 50],
           [id |-> 1, is_online |-> TRUE] }

\* the snapshots: garden 1 and its device data; garden 2 is in none
Snapshots ==
    { Snapshot([gardens |-> <<g>>], [k \in {"1"} |-> [at |-> 21, water_depth |-> 40]]) :
        g \in GardenRecords }

\* light.turn_on with every brightness, and without one
AllTurnOnArgs == {EmptyMap} \cup { [brightness |-> b] : b \in 0..255 }

\* Home Assistant reads the state of the light of a garden (light.py:84-108)
LightState ==
    /\ view = NoView
    /\ \E garden_id \in GardenIds :
          view' = [kind |-> "light", garden_id |-> garden_id,
                   is_on |-> is_on(coordinator_data, garden_id),
                   brightness |-> brightness(coordinator_data, garden_id),
                   available |-> available(coordinator_data, garden_id)]
    /\ UNCHANGED <<client, on_token_refresh, entry_refresh_token, now, pc, loc, h,
                   authed, lastRotation, scenario, setup, job, coordinator_data>>

\* Home Assistant reads the sensors of a garden (sensor.py native_value)
SensorState ==
    /\ view = NoView
    /\ \E garden_id \in GardenIds :
          view' = [kind |-> "sensor", garden_id |-> garden_id,
                   water_level |-> water_level(coordinator_data, garden_id),
                   online_status |-> online_status(coordinator_data, garden_id),
                   pending_tasks |-> pending_tasks(coordinator_data, garden_id),
                   temperature |-> temperature(coordinator_data, garden_id),
                   water_depth |-> water_depth(coordinator_data, garden_id)]
    /\ UNCHANGED <<client, on_token_refresh, entry_refresh_token, now, pc, loc, h,
                   authed, lastRotation, scenario, setup, job, coordinator_data>>

\* async_turn_on computes the level it sends (light.py:112-115)
TurnOnLevelOf ==
    /\ view = NoView
    /\ \E kwargs \in AllTurnOnArgs :
          view' = [kind |-> "turn_on", kwargs |-> kwargs,
                   level |-> TurnOnLevel(kwargs)]
    /\ UNCHANGED <<client, on_token_refresh, entry_refresh_token, now, pc, loc, h,
                   authed, lastRotation, scenario, setup, job, coordinator_data>>

\* the brightness the light reports is given back to async_turn_on
Reapply ==
    /\ view.kind = "light" /\ view.brightness # <<>>
    /\ view' = [kind |-> "reapply", garden_id |-> view.garden_id,
                brightness |-> view.brightness[1],
                level |-> TurnOnLevel([brightness |-> view.brightness[1]])]
    /\ UNCHANGED <<client, on_token_refresh, entry_refresh_token, now, pc, loc, h,
                   authed, lastRotation, scenario, setup, job, coordinator_data>>

InitEntity ==
    /\ LoggedIn
    /\ scenario = "entity"
    /\ coordinator_data \in Snapshots
    /\ view = NoView

NextEntity == LightState \/ SensorState \/ TurnOnLevelOf \/ Reapply

SpecEntity == InitEntity /\ [][NextEntity]_vars

\* round(p / q) of the exact quotient, ties to even, as Python's round
Round(p, q) ==
    LET f == p \div q
        r == 2 * (p % q)
    IN  IF r > q \/ (r = q /\ f % 2 = 1) THEN f + 1 ELSE f

\* the record of the entity's garden in the snapshot
OwnGarden == get_garden_data(coordinator_data, view.garden_id)

\* C16: for every light_level L in 0..100 of the snapshot the light reports
\* is_on = (L > 0) and brightness = round(L * 2.55); light_level 50 gives
\* is_on = true and brightness = 128.
C16_BrightnessIsRounded ==
    view.kind = "light" /\ OwnGarden # JsonNull
    /\ "light_level" \in DOMAIN OwnGarden =>
        LET L == OwnGarden["light_level"]
        IN  /\ view.is_on = (L > 0)
            /\ view.brightness = <<Round(L * 255, 100)>>
            /\ L = 50 => view.is_on /\ view.brightness = <<128>>

\* C17: for every level L in 1..100, turning the light on with the
\* brightness the entity reports for L sends level L.
C17_RoundTrip ==
    view.kind = "reapply" /\ OwnGarden["light_level"] >= 1 =>
        view.level = OwnGarden["light_level"]

\* C18: for every brightness b in 0..255 (255 when none is given)
\* async_turn_on sends clamp(round(b / 2.55), 1, 100), a level within
\* 1..100.
C18_TurnOnLevelIsRounded ==
    view.kind = "turn_on" =>
        LET b == Get(view.kwargs, "brightness", 255)
        IN  /\ view.level = Max(1, Min(100, Round(b * 100, 255)))
            /\ view.level \in 1..100

\* C20: the light is available exactly when the record of its garden says
\* is_online; for a garden the snapshot does not have, the light is
\* unavailable, off and without brightness, and every sensor is without a
\* value ("Unknown" for the online sensor).
C20_MissingGardenIsUnknown ==
    /\ view.kind = "light" /\ OwnGarden # JsonNull =>
          view.available = Get(OwnGarden, "is_online", FALSE)
    /\ view.kind = "light" /\ OwnGarden = JsonNull =>
          ~view.available /\ ~view.is_on /\ view.brightness = <<>>
    /\ view.kind = "sensor" /\ OwnGarden = JsonNull =>
          /\ view.water_level = <<>>
          /\ view.online_status = "Unknown"
          /\ view.pending_tasks = <<>>
          /\ view.temperature = <<>>
          /\ view.water_depth = <<>>

====
